---- MODULE Spec2Model ----
(***************************************************************************)
(* Model of the chat relay of omegle-in-rust: the session coordinator      *)
(* (ChatServer, src/src/server.rs) and the connection handler (chat_ws,    *)
(* src/src/handler.rs).  The actor variant in src/src/main.rs has the      *)
(* same coordinator algorithms; where it differs the difference is noted.  *)
(*                                                                         *)
(* Strings that the code inspects character by character (display names,   *)
(* user ids, group codes) are sequences of one-character strings.          *)
(* Option<T> is a sequence of length at most one.                          *)
(***************************************************************************)
EXTENDS Integers, Sequences, FiniteSets, TLC

\* ------------------------------------------------------------------ bounds
\* Number of connections that are ever opened (connection ids 1..MaxConns).
MaxConns == 2
\* Cap on the number of join_chat events the connections send in one run
\* (it also bounds the length of every waiting pool and member list).
MaxJoins == 3
\* rand::random::<usize>() is drawn from 0..MaxRandom.
MaxRandom == 1
\* The clock of the timed specification runs from 0 to MaxTime seconds.
MaxTime == 15

\* ------------------------------------------------------- program constants
\* server.rs:339  profile.user_id[..5]
UserIdPrefixLen == 5
\* server.rs:128  (0..6) draws per group code
CodeDraws == 6
\* server.rs:128  rng.gen_range(0..36)
CodeAlphabet == 36
\* handler.rs:15  HEARTBEAT_INTERVAL, in seconds
HEARTBEAT_INTERVAL == 5
\* handler.rs:17  CLIENT_TIMEOUT, in seconds
CLIENT_TIMEOUT == 10

\* ------------------------------------------------------------------ Option
None == <<>>
Some(v) == <<v>>
Unwrap(o) == o[1]

\* ------------------------------------------------------------ input values
Conns == 1..MaxConns

ShortUserId == <<"a", "b", "c">>
LongUserId == <<"a", "b", "c", "d", "e", "f">>
UserIds == {ShortUserId, LongUserId}
Usernames == {<<>>, <<"x">>}
Genders == {"male", "female"}
Preferences == {"male", "female", "any"}
RoomTypes == {"1:1", "group"}
JoinMethods == {None, Some("create"), Some("join")}
Messages == {"m"}

\* ------------------------------------------------------------------- state
VARIABLES
    sessions,       \* ChatServer.sessions: set of connection ids with a bound route
    users,          \* ChatServer.users: connection id -> User
    waiting_users,  \* ChatServer.waiting_users: preference -> list of connection ids
                    \* (a key the map lacks reads as the empty list)
    groups,         \* ChatServer.groups: group code -> Group
    sent,           \* notifications queued to each route by the last command
    running,        \* the task spawned by ChatServer::start is alive
    cmd_queue,      \* the command channel (cmd_tx / cmd_rx)
    hstate,         \* position of each connection handler (chat_ws)
    unregistered,   \* per connection: Command::Disconnect commands accepted by the channel
    cascades,       \* per connection: Command::Disconnect commands run by the coordinator
    left_loop,      \* per connection: the handler has left its select loop
    joins,          \* join_chat events sent so far (capped by MaxJoins)
    now,            \* Instant::now(), in seconds
    last_heartbeat, \* per connection: chat_ws's last_heartbeat
    next_tick,      \* per connection: when interval.tick() next completes
    pings           \* per connection: pings written by the handler since the clock last moved

vars == <<sessions, users, waiting_users, groups, sent, running,
          cmd_queue, hstate, unregistered, cascades, left_loop, joins,
          now, last_heartbeat, next_tick, pings>>

\* The clock and the heartbeat bookkeeping of the handlers.
timers == <<now, last_heartbeat, next_tick, pings>>

\* The coordinator's maps as one record, so that its methods are operators.
Server == [sessions |-> sessions, users |-> users, waiting_users |-> waiting_users,
           groups |-> groups, sent |-> sent, running |-> running]

NoSent == [c \in Conns |-> <<>>]

\* ----------------------------------------------------------------- helpers
\* HashMap::remove
MapRemove(m, k) == [x \in DOMAIN m \ {k} |-> m[x]]
\* HashMap::insert
MapInsert(m, k, v) == [x \in DOMAIN m \cup {k} |-> IF x = k THEN v ELSE m[x]]
\* Vec::retain(|e| e != v)
RetainNot(list, v) == SelectSeq(list, LAMBDA e : e # v)

Range(list) == {list[i] : i \in 1..Len(list)}

\* ServerEvent { event, data }
ServerEvent(event, data) == [event |-> event, data |-> data]
EmptyData == [empty |-> TRUE]

\* if let Some(tx) = self.sessions.get(id) { let _ = tx.send(..) }
Send(S, id, ev) ==
    IF id \in S.sessions THEN [S EXCEPT !.sent[id] = Append(@, ev)] ELSE S

RECURSIVE SendEach(_, _, _)
\* for member_id in &members { if let Some(tx) = sessions.get(member_id) { send evs } }
SendEach(S, members, evs) ==
    IF members = <<>> THEN S
    ELSE LET m == Head(members)
             S1 == IF m \in S.sessions
                   THEN [S EXCEPT !.sent[m] = @ \o evs]
                   ELSE S
         IN SendEach(S1, Tail(members), evs)

\* for list in self.waiting_users.values_mut() { list.retain(|id| id != conn) }
PurgeWaiting(w, conn) == [p \in DOMAIN w |-> RetainNot(w[p], conn)]

\* A faulty handle_disconnect: it keeps a group whose last member has left.
handle_disconnect_keeps_group(S, conn) ==
    LET S2 ==
          IF conn \in DOMAIN S.users
          THEN LET user == S.users[conn]
                   S1 == [S EXCEPT !.users = MapRemove(S.users, conn)]
               IN IF user.room_type = "group"
                  THEN IF user.group_id # None /\ Unwrap(user.group_id) \in DOMAIN S1.groups
                       THEN LET gid == Unwrap(user.group_id)
                                members == RetainNot(S1.groups[gid].members, conn)
                                usernames == RetainNot(S1.groups[gid].usernames, user.username)
                            IN SendEach(
                                 [S1 EXCEPT !.groups[gid].members = members,
                                            !.groups[gid].usernames = usernames],
                                 members,
                                 <<ServerEvent("user_left_group", [name |-> user.username]),
                                   ServerEvent("group_members_update", [members |-> usernames])>>)
                       ELSE S1
                  ELSE IF user.partner_id # None
                       THEN LET partner_id == Unwrap(user.partner_id)
                                S3 == Send(S1, partner_id,
                                           ServerEvent("partner_disconnected", EmptyData))
                            IN IF partner_id \in DOMAIN S3.users
                               THEN [S3 EXCEPT !.users[partner_id].partner_id = None]
                               ELSE S3
                       ELSE S1
          ELSE S
    IN [S2 EXCEPT !.waiting_users = PurgeWaiting(S2.waiting_users, conn)]

\* A faulty handle_disconnect: it reads the caller's record with get and leaves
\* it in users.
handle_disconnect_keeps_session(S, conn) ==
    LET S2 ==
          IF conn \in DOMAIN S.users
          THEN LET user == S.users[conn]
                   S1 == S
               IN IF user.room_type = "group"
                  THEN IF user.group_id # None /\ Unwrap(user.group_id) \in DOMAIN S1.groups
                       THEN LET gid == Unwrap(user.group_id)
                                members == RetainNot(S1.groups[gid].members, conn)
                                usernames == RetainNot(S1.groups[gid].usernames, user.username)
                            IN IF members = <<>>
                               THEN [S1 EXCEPT !.groups = MapRemove(S1.groups, gid)]
                               ELSE SendEach(
                                      [S1 EXCEPT !.groups[gid].members = members,
                                                 !.groups[gid].usernames = usernames],
                                      members,
                                      <<ServerEvent("user_left_group", [name |-> user.username]),
                                        ServerEvent("group_members_update", [members |-> usernames])>>)
                       ELSE S1
                  ELSE IF user.partner_id # None
                       THEN LET partner_id == Unwrap(user.partner_id)
                                S3 == Send(S1, partner_id,
                                           ServerEvent("partner_disconnected", EmptyData))
                            IN IF partner_id \in DOMAIN S3.users
                               THEN [S3 EXCEPT !.users[partner_id].partner_id = None]
                               ELSE S3
                       ELSE S1
          ELSE S
    IN [S2 EXCEPT !.waiting_users = PurgeWaiting(S2.waiting_users, conn)]

\* -------------------------------------------------------- handle_disconnect
handle_disconnect(S, conn) ==
    LET S2 ==
          IF conn \in DOMAIN S.users
          THEN LET user == S.users[conn]
                   S1 == [S EXCEPT !.users = MapRemove(S.users, conn)]
               IN IF user.room_type = "group"
                  THEN IF user.group_id # None /\ Unwrap(user.group_id) \in DOMAIN S1.groups
                       THEN LET gid == Unwrap(user.group_id)
                                members == RetainNot(S1.groups[gid].members, conn)
                                usernames == RetainNot(S1.groups[gid].usernames, user.username)
                            IN IF members = <<>>
                               THEN [S1 EXCEPT !.groups = MapRemove(S1.groups, gid)]
                               ELSE SendEach(
                                      [S1 EXCEPT !.groups[gid].members = members,
                                                 !.groups[gid].usernames = usernames],
                                      members,
                                      <<ServerEvent("user_left_group", [name |-> user.username]),
                                        ServerEvent("group_members_update", [members |-> usernames])>>)
                       ELSE S1
                  ELSE IF user.partner_id # None
                       THEN LET partner_id == Unwrap(user.partner_id)
                                S3 == Send(S1, partner_id,
                                           ServerEvent("partner_disconnected", EmptyData))
                            IN IF partner_id \in DOMAIN S3.users
                               THEN [S3 EXCEPT !.users[partner_id].partner_id = None]
                               ELSE S3
                       ELSE S1
          ELSE S
    IN [S2 EXCEPT !.waiting_users = PurgeWaiting(S2.waiting_users, conn)]

\* ------------------------------------------------------------ connect_users
connect_users(S, user1_id, user2_id) ==
    LET S1 == IF user1_id \in DOMAIN S.users
              THEN [S EXCEPT !.users[user1_id].partner_id = Some(user2_id)]
              ELSE S
        S2 == IF user2_id \in DOMAIN S1.users
              THEN [S1 EXCEPT !.users[user2_id].partner_id = Some(user1_id)]
              ELSE S1
        S3 == [S2 EXCEPT !.waiting_users =
                 PurgeWaiting(PurgeWaiting(S2.waiting_users, user1_id), user2_id)]
        S4 == Send(S3, user1_id, ServerEvent("chat_started", [groupCode |-> None]))
    IN Send(S4, user2_id, ServerEvent("chat_started", [groupCode |-> None]))

\* A faulty filter closure: it accepts every waiting connection with a session,
\* whatever its gender.
EligibleAnyGender(S, preference, id) ==
    /\ id \in DOMAIN S.users
    /\ preference \in {"male", "female"}

\* --------------------------------------------------------------- find_match
\* The filter closure of find_match: is the waiting id an eligible candidate?
Eligible(S, preference, id) ==
    /\ id \in DOMAIN S.users
    /\ CASE preference = "male" -> S.users[id].gender = "male"
         [] preference = "female" -> S.users[id].gender = "female"
         [] OTHER -> FALSE

\* self.waiting_users.get(preference).cloned().unwrap_or_default()
PoolOf(S, preference) == S.waiting_users[preference]

MatchPool(S, preference) ==
    SelectSeq(PoolOf(S, preference), LAMBDA id : Eligible(S, preference, id))

\* find_match, except that an asker without candidate is put at the head of its
\* pool (a faulty variant the checks must tell from find_match).
find_match_enqueues_first(S, conn, random) ==
    IF conn \in DOMAIN S.users
    THEN LET preference == S.users[conn].preference
             match_pool == MatchPool(S, preference)
         IN IF match_pool # <<>>
            THEN connect_users(S, conn, match_pool[(random % Len(match_pool)) + 1])
            ELSE Send([S EXCEPT !.waiting_users[preference] = <<conn>> \o @],
                      conn, ServerEvent("waiting_for_match", EmptyData))
    ELSE S

find_match(S, conn, random) ==
    IF conn \in DOMAIN S.users
    THEN LET preference == S.users[conn].preference
             match_pool == MatchPool(S, preference)
         IN IF match_pool # <<>>
            THEN connect_users(S, conn, match_pool[(random % Len(match_pool)) + 1])
            ELSE Send([S EXCEPT !.waiting_users[preference] = Append(@, conn)],
                      conn, ServerEvent("waiting_for_match", EmptyData))
    ELSE S

\* ------------------------------------------------------ generate_group_code
DigitChars == <<"0", "1", "2", "3", "4", "5", "6", "7", "8", "9">>
\* i32::to_string of a draw in 0..35 (to_uppercase leaves digits alone)
DrawToString(n) ==
    IF n < 10 THEN <<DigitChars[n + 1]>>
    ELSE <<DigitChars[(n \div 10) + 1], DigitChars[(n % 10) + 1]>>

RECURSIVE Collect(_)
\* Iterator::collect::<String>() of the rendered draws
Collect(strs) == IF strs = <<>> THEN <<>> ELSE Head(strs) \o Collect(Tail(strs))

\* draws: the six results of rng.gen_range(0..36)
generate_group_code(draws) ==
    Collect([i \in 1..Len(draws) |-> DrawToString(draws[i])])

\* The draw sequences the model lets the generator produce: CodeDraws results
\* of rng.gen_range(0..CodeAlphabet) each.
DrawChoices ==
    {d \in {<<0, 0, 0, 0, 0, 0>>, <<1, 10, 0, 0, 0, 0>>, <<11, 0, 0, 0, 0, 0>>} :
        Len(d) = CodeDraws /\ \A i \in 1..Len(d) : d[i] \in 0..(CodeAlphabet - 1)}
GroupCodes == {generate_group_code(d) : d \in DrawChoices}

\* --------------------------------------------------------- create_new_group
\* create_new_group, except that the membership snapshot is sent before
\* chat_started (a faulty variant the checks must tell from create_new_group).
create_new_group_snapshot_first(S, conn, draws) ==
    LET group_code == generate_group_code(draws)
    IN IF conn \in DOMAIN S.users
       THEN LET username == S.users[conn].username
                group == [code |-> group_code, members |-> <<conn>>,
                          usernames |-> <<username>>]
                S1 == [S EXCEPT !.groups = MapInsert(S.groups, group_code, group),
                                !.users[conn].group_id = Some(group_code)]
                S2 == Send(S1, conn,
                           ServerEvent("group_members_update", [members |-> <<username>>]))
            IN Send(S2, conn,
                    ServerEvent("chat_started", [groupCode |-> Some(group_code)]))
       ELSE S

create_new_group(S, conn, draws) ==
    LET group_code == generate_group_code(draws)
    IN IF conn \in DOMAIN S.users
       THEN LET username == S.users[conn].username
                group == [code |-> group_code, members |-> <<conn>>,
                          usernames |-> <<username>>]
                S1 == [S EXCEPT !.groups = MapInsert(S.groups, group_code, group),
                                !.users[conn].group_id = Some(group_code)]
                S2 == Send(S1, conn,
                           ServerEvent("chat_started", [groupCode |-> Some(group_code)]))
            IN Send(S2, conn,
                    ServerEvent("group_members_update", [members |-> <<username>>]))
       ELSE S

\* ------------------------------------------------------- join_group_by_code
RECURSIVE JoinBroadcast(_, _, _, _, _)
\* the for loop of join_group_by_code over the updated member list
JoinBroadcast(S, members, conn, usernames, username) ==
    IF members = <<>> THEN S
    ELSE LET m == Head(members)
             S1 == Send(S, m, ServerEvent("group_members_update", [members |-> usernames]))
             S2 == IF m # conn
                   THEN Send(S1, m, ServerEvent("user_joined_group", [name |-> username]))
                   ELSE S1
         IN JoinBroadcast(S2, Tail(members), conn, usernames, username)

\* join_group_by_code, except that an unknown code opens a group under that code
\* for the caller (a faulty variant the checks must tell from
\* join_group_by_code).
join_group_by_code_or_open(S, conn, group_code) ==
    IF group_code \in DOMAIN S.groups
    THEN IF conn \in DOMAIN S.users
         THEN LET username == S.users[conn].username
                  members == Append(S.groups[group_code].members, conn)
                  usernames == Append(S.groups[group_code].usernames, username)
                  S1 == [S EXCEPT !.groups[group_code].members = members,
                                  !.groups[group_code].usernames = usernames,
                                  !.users[conn].group_id = Some(group_code)]
                  S2 == JoinBroadcast(S1, members, conn, usernames, username)
              IN Send(S2, conn,
                      ServerEvent("chat_started", [groupCode |-> Some(group_code)]))
         ELSE S
    ELSE IF conn \in DOMAIN S.users
         THEN LET group == [code |-> group_code, members |-> <<conn>>,
                            usernames |-> <<S.users[conn].username>>]
              IN Send([S EXCEPT !.groups = MapInsert(S.groups, group_code, group)],
                      conn, ServerEvent("group_not_found", EmptyData))
         ELSE Send(S, conn, ServerEvent("group_not_found", EmptyData))

join_group_by_code(S, conn, group_code) ==
    IF group_code \in DOMAIN S.groups
    THEN IF conn \in DOMAIN S.users
         THEN LET username == S.users[conn].username
                  members == Append(S.groups[group_code].members, conn)
                  usernames == Append(S.groups[group_code].usernames, username)
                  S1 == [S EXCEPT !.groups[group_code].members = members,
                                  !.groups[group_code].usernames = usernames,
                                  !.users[conn].group_id = Some(group_code)]
                  S2 == JoinBroadcast(S1, members, conn, usernames, username)
              IN Send(S2, conn,
                      ServerEvent("chat_started", [groupCode |-> Some(group_code)]))
         ELSE S
    ELSE Send(S, conn, ServerEvent("group_not_found", EmptyData))

\* -------------------------------------------------------- join_random_group
RECURSIVE SetToSeq(_)
\* HashMap::values() visits the entries in an order the program does not fix.
SetToSeq(set) ==
    IF set = {} THEN <<>>
    ELSE LET e == CHOOSE x \in set : TRUE IN <<e>> \o SetToSeq(set \ {e})

join_random_group(S, conn, random, draws) ==
    LET available_groups ==
            SetToSeq({code \in DOMAIN S.groups : S.groups[code].members # <<>>})
    IN IF available_groups = <<>>
       THEN create_new_group(S, conn, draws)
       ELSE join_group_by_code(S, conn,
                available_groups[(random % Len(available_groups)) + 1])

\* ------------------------------------------------------------ the commands
\* format!("User-{}", profile.user_id[..5]) panics when the slice is out of range
JoinPanics(profile) ==
    profile.username = <<>> /\ Len(profile.user_id) < UserIdPrefixLen

DisplayName(profile) ==
    IF profile.username = <<>>
    THEN <<"U", "s", "e", "r", "-">> \o SubSeq(profile.user_id, 1, UserIdPrefixLen)
    ELSE profile.username

\* Command::JoinChat
JoinChat(S, conn, profile, random, draws) ==
    IF JoinPanics(profile)
    THEN [S EXCEPT !.running = FALSE]
    ELSE LET user == [id |-> conn,
                      user_id |-> profile.user_id,
                      username |-> DisplayName(profile),
                      gender |-> profile.gender,
                      preference |-> profile.preference,
                      room_type |-> profile.room_type,
                      partner_id |-> None,
                      group_id |-> None]
             S1 == [S EXCEPT !.users = MapInsert(S.users, conn, user)]
         IN IF profile.room_type = "group"
            THEN LET join_method == IF profile.group_join_method = None
                                    THEN "random"
                                    ELSE Unwrap(profile.group_join_method)
                 IN IF join_method = "create"
                    THEN create_new_group(S1, conn, draws)
                    ELSE IF join_method = "join" /\ profile.group_code # None
                         THEN join_group_by_code(S1, conn, Unwrap(profile.group_code))
                         ELSE join_random_group(S1, conn, random, draws)
            ELSE find_match(S1, conn, random)

\* The connections a command of conn addresses: group_code.or(user.group_id) for a
\* group command (every listed member but conn, in list order), the partner otherwise.
\* Addressees, except that a command without target is answered to its issuer
\* (a faulty variant the checks must tell from Addressees).
AddresseesOrIssuer(S, conn, is_group_chat, group_code) ==
    IF conn \in DOMAIN S.users
    THEN IF is_group_chat
         THEN LET group_id == IF group_code # None THEN group_code
                              ELSE S.users[conn].group_id
              IN IF group_id # None /\ Unwrap(group_id) \in DOMAIN S.groups
                 THEN RetainNot(S.groups[Unwrap(group_id)].members, conn)
                 ELSE <<conn>>
         ELSE IF S.users[conn].partner_id # None
              THEN S.users[conn].partner_id
              ELSE <<conn>>
    ELSE <<>>

Addressees(S, conn, is_group_chat, group_code) ==
    IF conn \in DOMAIN S.users
    THEN IF is_group_chat
         THEN LET group_id == IF group_code # None THEN group_code
                              ELSE S.users[conn].group_id
              IN IF group_id # None /\ Unwrap(group_id) \in DOMAIN S.groups
                 THEN RetainNot(S.groups[Unwrap(group_id)].members, conn)
                 ELSE <<>>
         ELSE S.users[conn].partner_id
    ELSE <<>>

\* Command::SendMessage
SendMessage(S, conn, message, is_group_chat, group_code) ==
    IF conn \in DOMAIN S.users
    THEN SendEach(S, Addressees(S, conn, is_group_chat, group_code),
                  <<ServerEvent("receive_message",
                                [message |-> message, sender |-> S.users[conn].username])>>)
    ELSE S

\* Command::TypingStart
TypingStart(S, conn, is_group_chat, group_code) ==
    IF conn \in DOMAIN S.users
    THEN SendEach(S, Addressees(S, conn, is_group_chat, group_code),
                  <<ServerEvent("typing_started",
                                [username |-> IF is_group_chat
                                              THEN Some(S.users[conn].username)
                                              ELSE None])>>)
    ELSE S

\* Command::TypingStop
TypingStop(S, conn, is_group_chat, group_code) ==
    IF conn \in DOMAIN S.users
    THEN SendEach(S, Addressees(S, conn, is_group_chat, group_code),
                  <<ServerEvent("typing_stopped",
                                [username |-> IF is_group_chat
                                              THEN Some(S.users[conn].username)
                                              ELSE None])>>)
    ELSE S

\* One iteration of the loop of ChatServer::run: the match on the command.
run(S, cmd, random, draws) ==
    CASE cmd.type = "Connect" ->
            [S EXCEPT !.sessions = @ \cup {cmd.conn}]
      [] cmd.type = "Disconnect" ->
            handle_disconnect(S, cmd.conn)
      [] cmd.type = "JoinChat" ->
            JoinChat(S, cmd.conn, cmd.profile, random, draws)
      [] cmd.type = "SendMessage" ->
            SendMessage(S, cmd.conn, cmd.message, cmd.is_group_chat, cmd.group_code)
      [] cmd.type = "TypingStart" ->
            TypingStart(S, cmd.conn, cmd.is_group_chat, cmd.group_code)
      [] cmd.type = "TypingStop" ->
            TypingStop(S, cmd.conn, cmd.is_group_chat, cmd.group_code)
      [] cmd.type = "DisconnectChat" ->
            handle_disconnect(S, cmd.conn)

\* ------------------------------------------------------------------ inputs
OptionalCodes == {None} \cup {Some(code) : code \in GroupCodes}

\* The decoded join_chat profiles.  Fields the coordinator never reads for a
\* profile are held at one value (the group fields of a 1:1 profile, the user
\* id of a profile that carries a display name); a group code comes only with
\* the "join" method; group profiles and profiles without a display name use
\* one gender and preference.
Profiles ==
    {p \in [user_id : UserIds, username : Usernames, preference : Preferences,
            gender : Genders, room_type : RoomTypes,
            group_code : OptionalCodes, group_join_method : JoinMethods] :
        /\ p.username # <<>> => p.user_id = LongUserId
        /\ p.room_type # "group" => p.group_code = None /\ p.group_join_method = None
        /\ p.group_code # None => p.group_join_method = Some("join")
        /\ (p.room_type = "group" \/ p.username = <<>>) =>
               p.gender = "male" /\ p.preference = "male"}

\* The same profiles as a list, so that a formula that ranges over them at every
\* step enumerates them once.
ProfileList == SetToSeq(Profiles)

\* The decoded send_message / typing_start / typing_stop data: (is_group_chat,
\* group_code).  The code is read only when is_group_chat is set.
Addressings ==
    {a \in BOOLEAN \X OptionalCodes : ~a[1] => a[2] = None}

\* Only Command::JoinChat consumes random numbers and code draws: find_match and
\* join_random_group call rand::random, create_new_group (also reached from
\* join_random_group) calls generate_group_code.
JoinsByCode(profile) ==
    /\ profile.room_type = "group"
    /\ profile.group_join_method = Some("join")
    /\ profile.group_code # None
JoinsByCreate(profile) ==
    /\ profile.room_type = "group"
    /\ profile.group_join_method = Some("create")
RandomsFor(cmd) ==
    IF cmd.type = "JoinChat" /\ ~JoinsByCode(cmd.profile) /\ ~JoinsByCreate(cmd.profile)
    THEN 0..MaxRandom ELSE {0}
DrawsFor(cmd) ==
    IF cmd.type = "JoinChat" /\ cmd.profile.room_type = "group" /\ ~JoinsByCode(cmd.profile)
    THEN DrawChoices ELSE {CHOOSE d \in DrawChoices : TRUE}

ConnectCmd(c) == [type |-> "Connect", conn |-> c]
DisconnectCmd(c) == [type |-> "Disconnect", conn |-> c]
JoinChatCmd(c, profile) == [type |-> "JoinChat", conn |-> c, profile |-> profile]
SendMessageCmd(c, message, is_group_chat, group_code) ==
    [type |-> "SendMessage", conn |-> c, message |-> message,
     is_group_chat |-> is_group_chat, group_code |-> group_code]
TypingStartCmd(c, is_group_chat, group_code) ==
    [type |-> "TypingStart", conn |-> c,
     is_group_chat |-> is_group_chat, group_code |-> group_code]
TypingStopCmd(c, is_group_chat, group_code) ==
    [type |-> "TypingStop", conn |-> c,
     is_group_chat |-> is_group_chat, group_code |-> group_code]
DisconnectChatCmd(c) == [type |-> "DisconnectChat", conn |-> c]

\* ------------------------------------------------------------ initial state
Init ==
    /\ sessions = {}
    /\ users = <<>>
    /\ waiting_users = [p \in Preferences |-> <<>>]
    /\ groups = <<>>
    /\ sent = NoSent
    /\ running = TRUE
    /\ cmd_queue = <<>>
    /\ hstate = [c \in Conns |-> "new"]
    /\ unregistered = [c \in Conns |-> 0]
    /\ cascades = [c \in Conns |-> 0]
    /\ left_loop = [c \in Conns |-> FALSE]
    /\ joins = 0
    /\ now = 0
    /\ last_heartbeat = [c \in Conns |-> 0]
    /\ next_tick = [c \in Conns |-> 0]
    /\ pings = [c \in Conns |-> 0]

SetServer(S) ==
    /\ sessions' = S.sessions
    /\ users' = S.users
    /\ waiting_users' = S.waiting_users
    /\ groups' = S.groups
    /\ sent' = S.sent
    /\ running' = S.running

ServerUnchanged == UNCHANGED <<sessions, users, waiting_users, groups, sent, running>>

\* ------------------------------------------- Spec: one command at a time
\* A call of a ChatServerHandle method by the handler of c, taken together with
\* the coordinator's processing of the command it queues (the handler awaits
\* the reply).  With the server task gone, cmd_tx.send(..).unwrap() panics in
\* the caller; when the task dies in the command, res_rx.await.unwrap() does.
Call(c, cmd, next) ==
    /\ cmd_queue = <<>>
    /\ IF running
       THEN \E random \in RandomsFor(cmd), draws \in DrawsFor(cmd) :
               LET S2 == run([Server EXCEPT !.sent = NoSent], cmd, random, draws)
               IN /\ SetServer(S2)
                  /\ hstate' = [hstate EXCEPT ![c] = IF S2.running THEN next ELSE "panicked"]
       ELSE /\ hstate' = [hstate EXCEPT ![c] = "panicked"]
            /\ ServerUnchanged
    /\ UNCHANGED <<cmd_queue, unregistered, cascades, left_loop, timers>>

\* ChatServerHandle::connect
connect(c) ==
    /\ hstate[c] = "new"
    /\ UNCHANGED joins
    /\ Call(c, ConnectCmd(c), "alive")

\* ChatServerHandle::join_chat with a given profile
JoinChatStep(c, profile) ==
    /\ hstate[c] = "alive"
    /\ joins < MaxJoins
    /\ joins' = joins + 1
    /\ Call(c, JoinChatCmd(c, profile), "alive")

join_chat(c) == \E profile \in Profiles : JoinChatStep(c, profile)

\* ChatServerHandle::send_message with given arguments
SendMessageStep(c, message, is_group_chat, group_code) ==
    /\ hstate[c] = "alive"
    /\ UNCHANGED joins
    /\ Call(c, SendMessageCmd(c, message, is_group_chat, group_code), "alive")

send_message(c) ==
    \E message \in Messages, a \in Addressings : SendMessageStep(c, message, a[1], a[2])

\* ChatServerHandle::typing_start
typing_start(c) ==
    /\ hstate[c] = "alive"
    /\ UNCHANGED joins
    /\ \E a \in Addressings : Call(c, TypingStartCmd(c, a[1], a[2]), "alive")

\* ChatServerHandle::typing_stop
typing_stop(c) ==
    /\ hstate[c] = "alive"
    /\ UNCHANGED joins
    /\ \E a \in Addressings : Call(c, TypingStopCmd(c, a[1], a[2]), "alive")

\* ChatServerHandle::disconnect_chat
disconnect_chat(c) ==
    /\ hstate[c] = "alive"
    /\ UNCHANGED joins
    /\ Call(c, DisconnectChatCmd(c), "alive")

\* The handler of c leaves its loop and calls ChatServerHandle::disconnect, which
\* queues Command::Disconnect without waiting for a reply (here the coordinator
\* runs it at once); with the server task gone the call panics.
disconnect(c) ==
    /\ hstate[c] = "alive"
    /\ cmd_queue = <<>>
    /\ left_loop' = [left_loop EXCEPT ![c] = TRUE]
    /\ IF running
       THEN /\ SetServer(run([Server EXCEPT !.sent = NoSent], DisconnectCmd(c),
                             0, CHOOSE d \in DrawChoices : TRUE))
            /\ hstate' = [hstate EXCEPT ![c] = "closed"]
            /\ unregistered' = [unregistered EXCEPT ![c] = @ + 1]
            /\ cascades' = [cascades EXCEPT ![c] = @ + 1]
       ELSE /\ hstate' = [hstate EXCEPT ![c] = "panicked"]
            /\ ServerUnchanged
            /\ UNCHANGED <<unregistered, cascades>>
    /\ UNCHANGED <<cmd_queue, joins, timers>>

Next ==
    \E c \in Conns :
        \/ connect(c)
        \/ join_chat(c)
        \/ send_message(c)
        \/ typing_start(c)
        \/ typing_stop(c)
        \/ disconnect_chat(c)
        \/ disconnect(c)

Spec == Init /\ [][Next]_vars

\* --------------------------- HandlerSpec: handlers, channel and coordinator
\* The profiles and addressings the handlers of HandlerSpec decode.
HProfiles ==
    {p \in Profiles : p.room_type = "1:1" /\ p.gender = "male" /\ p.preference = "male"}
HAddressings == {a \in Addressings : ~a[1]}

\* The commands process_text_msg issues for the recognised events.
TextCommands(c) ==
    {JoinChatCmd(c, profile) : profile \in HProfiles}
    \cup {SendMessageCmd(c, message, a[1], a[2]) : message \in Messages, a \in HAddressings}
    \cup {TypingStartCmd(c, a[1], a[2]) : a \in HAddressings}
    \cup {TypingStopCmd(c, a[1], a[2]) : a \in HAddressings}
    \cup {DisconnectChatCmd(c)}

\* The breaks of the loop of chat_ws.
ExitReasons ==
    {"pong_failed", "close_frame", "stream_error", "stream_ended",
     "text_failed", "senders_dropped", "heartbeat_timeout", "ping_failed"}

\* chat_ws up to chat_server.connect(conn_tx): last_heartbeat is taken, the
\* interval is created (its first tick completes at once), the Connect command
\* is queued and the handler awaits the connection id.
chat_ws_connect(c) ==
    /\ hstate[c] = "new"
    /\ last_heartbeat' = [last_heartbeat EXCEPT ![c] = now]
    /\ next_tick' = [next_tick EXCEPT ![c] = now]
    /\ UNCHANGED <<now, pings>>
    /\ IF running
       THEN /\ cmd_queue' = Append(cmd_queue, ConnectCmd(c))
            /\ hstate' = [hstate EXCEPT ![c] = "connecting"]
       ELSE /\ hstate' = [hstate EXCEPT ![c] = "panicked"]
            /\ UNCHANGED cmd_queue
    /\ ServerUnchanged
    /\ UNCHANGED <<unregistered, cascades, left_loop, joins>>

\* A text frame that decodes to the recognised event of cmd: the frame counts
\* as activity, process_text_msg queues the command and the handler awaits the
\* reply.
TextStep(c, cmd) ==
    /\ hstate[c] = "alive"
    /\ cmd.type = "JoinChat" => joins < MaxJoins
    /\ joins' = IF cmd.type = "JoinChat" THEN joins + 1 ELSE joins
    /\ last_heartbeat' = [last_heartbeat EXCEPT ![c] = now]
    /\ IF running
       THEN /\ cmd_queue' = Append(cmd_queue, cmd)
            /\ hstate' = [hstate EXCEPT ![c] = "awaiting"]
       ELSE /\ hstate' = [hstate EXCEPT ![c] = "panicked"]
            /\ UNCHANGED cmd_queue
    /\ ServerUnchanged
    /\ UNCHANGED <<unregistered, cascades, left_loop, now, next_tick, pings>>

process_text_msg(c) == \E cmd \in TextCommands(c) : TextStep(c, cmd)

\* A break of the loop of chat_ws for the given reason, then
\* chat_server.disconnect(conn_id).  The outbound queue reports "all senders
\* dropped" only once the coordinator, which keeps the sender in sessions, is
\* gone.
ExitStep(c, reason) ==
    /\ hstate[c] = "alive"
    /\ reason = "senders_dropped" => ~running
    /\ left_loop' = [left_loop EXCEPT ![c] = TRUE]
    /\ IF running
       THEN /\ cmd_queue' = Append(cmd_queue, DisconnectCmd(c))
            /\ hstate' = [hstate EXCEPT ![c] = "closed"]
            /\ unregistered' = [unregistered EXCEPT ![c] = @ + 1]
       ELSE /\ hstate' = [hstate EXCEPT ![c] = "panicked"]
            /\ UNCHANGED <<cmd_queue, unregistered>>
    /\ ServerUnchanged
    /\ UNCHANGED <<cascades, joins>>

\* Any break of the loop, at any time (time is not tracked by HandlerSpec).
chat_ws_exit(c) ==
    /\ \E reason \in ExitReasons : ExitStep(c, reason)
    /\ UNCHANGED timers

\* server_run, except that the coordinator takes the command queued last (a
\* faulty variant the checks must tell from server_run).
server_run_newest_first ==
    /\ running
    /\ cmd_queue # <<>>
    /\ LET cmd == cmd_queue[Len(cmd_queue)]
       IN \E random \in RandomsFor(cmd), draws \in DrawsFor(cmd) :
             LET S2 == run([Server EXCEPT !.sent = NoSent], cmd, random, draws)
             IN /\ SetServer(S2)
                /\ IF S2.running
                   THEN /\ cmd_queue' = SubSeq(cmd_queue, 1, Len(cmd_queue) - 1)
                        /\ hstate' = IF cmd.type = "Disconnect" THEN hstate
                                     ELSE [hstate EXCEPT ![cmd.conn] = "alive"]
                        /\ cascades' = IF cmd.type = "Disconnect"
                                       THEN [cascades EXCEPT ![cmd.conn] = @ + 1]
                                       ELSE cascades
                   ELSE /\ cmd_queue' = <<>>
                        /\ hstate' = [c \in Conns |->
                                        IF hstate[c] \in {"connecting", "awaiting"}
                                        THEN "panicked" ELSE hstate[c]]
                        /\ UNCHANGED cascades
    /\ UNCHANGED <<unregistered, left_loop, joins, timers>>

\* server_run, except that the command's change of waiting_users is not made
\* in the step that makes its other changes and queues its notifications (a
\* faulty variant the checks must tell from server_run).
server_run_torn ==
    /\ running
    /\ cmd_queue # <<>>
    /\ LET cmd == Head(cmd_queue)
       IN \E random \in RandomsFor(cmd), draws \in DrawsFor(cmd) :
             LET S2 == run([Server EXCEPT !.sent = NoSent], cmd, random, draws)
             IN /\ SetServer([S2 EXCEPT !.waiting_users = waiting_users])
                /\ IF S2.running
                   THEN /\ cmd_queue' = Tail(cmd_queue)
                        /\ hstate' = IF cmd.type = "Disconnect" THEN hstate
                                     ELSE [hstate EXCEPT ![cmd.conn] = "alive"]
                        /\ cascades' = IF cmd.type = "Disconnect"
                                       THEN [cascades EXCEPT ![cmd.conn] = @ + 1]
                                       ELSE cascades
                   ELSE /\ cmd_queue' = <<>>
                        /\ hstate' = [c \in Conns |->
                                        IF hstate[c] \in {"connecting", "awaiting"}
                                        THEN "panicked" ELSE hstate[c]]
                        /\ UNCHANGED cascades
    /\ UNCHANGED <<unregistered, left_loop, joins, timers>>

\* One iteration of ChatServer::run: cmd_rx.recv(), the command, the reply.  A
\* panic in the command ends the task: the queued commands and their reply
\* senders are dropped, and every handler awaiting a reply panics.
server_run ==
    /\ running
    /\ cmd_queue # <<>>
    /\ LET cmd == Head(cmd_queue)
       IN \E random \in RandomsFor(cmd), draws \in DrawsFor(cmd) :
             LET S2 == run([Server EXCEPT !.sent = NoSent], cmd, random, draws)
             IN /\ SetServer(S2)
                /\ IF S2.running
                   THEN /\ cmd_queue' = Tail(cmd_queue)
                        /\ hstate' = IF cmd.type = "Disconnect" THEN hstate
                                     ELSE [hstate EXCEPT ![cmd.conn] = "alive"]
                        /\ cascades' = IF cmd.type = "Disconnect"
                                       THEN [cascades EXCEPT ![cmd.conn] = @ + 1]
                                       ELSE cascades
                   ELSE /\ cmd_queue' = <<>>
                        /\ hstate' = [c \in Conns |->
                                        IF hstate[c] \in {"connecting", "awaiting"}
                                        THEN "panicked" ELSE hstate[c]]
                        /\ UNCHANGED cascades
    /\ UNCHANGED <<unregistered, left_loop, joins, timers>>

HandlerNext ==
    \/ \E c \in Conns :
          \/ chat_ws_connect(c)
          \/ process_text_msg(c)
          \/ chat_ws_exit(c)
    \/ server_run

HandlerSpec == Init /\ [][HandlerNext]_vars

\* ------------------------------ LiveSpec: the handlers with the clock running
\* The profiles and commands the handlers of LiveSpec decode.
LiveProfiles == {p \in HProfiles : p.username # <<>> \/ p.user_id = ShortUserId}
LiveCommands(c) == {JoinChatCmd(c, profile) : profile \in LiveProfiles}

\* Instant::now().duration_since(last_heartbeat)
Silence(c) == now - last_heartbeat[c]
\* interval.tick() of the handler of c is ready and the handler is in its select
TickDue(c) == hstate[c] = "alive" /\ next_tick[c] <= now

live_text_msg(c) == \E cmd \in LiveCommands(c) : TextStep(c, cmd)

\* An inbound frame that issues no command (ping, pong, binary, continuation,
\* nop, or a text frame process_text_msg drops): last_heartbeat = Instant::now().
inbound_frame(c) ==
    /\ hstate[c] = "alive"
    /\ last_heartbeat' = [last_heartbeat EXCEPT ![c] = now]
    /\ ServerUnchanged
    /\ UNCHANGED <<cmd_queue, hstate, unregistered, cascades, left_loop, joins,
                   now, next_tick, pings>>

\* heartbeat_tick, except that a silence of exactly CLIENT_TIMEOUT already
\* breaks the loop (a faulty variant the checks must tell from heartbeat_tick).
heartbeat_tick_at_timeout(c) ==
    /\ TickDue(c)
    /\ running
    /\ next_tick' = [next_tick EXCEPT ![c] = @ + HEARTBEAT_INTERVAL]
    /\ UNCHANGED <<now, last_heartbeat>>
    /\ IF Silence(c) >= CLIENT_TIMEOUT
       THEN /\ ExitStep(c, "heartbeat_timeout")
            /\ UNCHANGED pings
       ELSE /\ pings' = [pings EXCEPT ![c] = @ + 1]
            /\ \E write_ok \in BOOLEAN :
                  IF write_ok
                  THEN /\ ServerUnchanged
                       /\ UNCHANGED <<cmd_queue, hstate, unregistered, cascades,
                                      left_loop, joins>>
                  ELSE ExitStep(c, "ping_failed")

\* The heartbeat branch of the select: break when the silence exceeds
\* CLIENT_TIMEOUT, else session.ping(b""), and break when that write fails.
\* The interval schedules the next tick one period after the one that
\* completed.  The select polls the outbound queue before the tick, so a closed
\* queue (the coordinator is gone) is served first.
heartbeat_tick(c) ==
    /\ TickDue(c)
    /\ running
    /\ next_tick' = [next_tick EXCEPT ![c] = @ + HEARTBEAT_INTERVAL]
    /\ UNCHANGED <<now, last_heartbeat>>
    /\ IF Silence(c) > CLIENT_TIMEOUT
       THEN /\ ExitStep(c, "heartbeat_timeout")
            /\ UNCHANGED pings
       ELSE /\ pings' = [pings EXCEPT ![c] = @ + 1]
            /\ \E write_ok \in BOOLEAN :
                  IF write_ok
                  THEN /\ ServerUnchanged
                       /\ UNCHANGED <<cmd_queue, hstate, unregistered, cascades,
                                      left_loop, joins>>
                  ELSE ExitStep(c, "ping_failed")

\* conn_rx.recv() returns None: the coordinator and its senders are gone.
senders_dropped(c) ==
    /\ ExitStep(c, "senders_dropped")
    /\ UNCHANGED timers

\* Time passes; the clock is followed from one heartbeat period to the next.  A
\* handler waiting in its select serves a completed tick or a closed outbound
\* queue, and the coordinator runs the queued commands (in-memory work), before
\* the clock moves on.
tick_clock ==
    /\ now + HEARTBEAT_INTERVAL <= MaxTime
    /\ \A c \in Conns : hstate[c] = "alive" => (running /\ ~TickDue(c))
    /\ cmd_queue = <<>>
    /\ now' = now + HEARTBEAT_INTERVAL
    /\ pings' = [c \in Conns |-> 0]
    /\ ServerUnchanged
    /\ UNCHANGED <<cmd_queue, hstate, unregistered, cascades, left_loop, joins,
                   last_heartbeat, next_tick>>

LiveNext ==
    \/ \E c \in Conns :
          \/ chat_ws_connect(c)
          \/ live_text_msg(c)
          \/ inbound_frame(c)
          \/ heartbeat_tick(c)
          \/ senders_dropped(c)
    \/ server_run
    \/ tick_clock

\* The coordinator task and every handler task are scheduled (a handler serves
\* a ready branch of its select), and time passes.
LiveSpec ==
    /\ Init
    /\ [][LiveNext]_vars
    /\ WF_vars(server_run)
    /\ \A c \in Conns : WF_vars(heartbeat_tick(c)) /\ WF_vars(senders_dropped(c))
    /\ WF_vars(tick_clock)

\* The outbound branch of the select: the oldest notification the coordinator
\* queued to the route of c is written to the socket with session.text, and the
\* loop breaks when that write fails.  last_heartbeat is not assigned.
conn_msg(c) ==
    /\ hstate[c] = "alive"
    /\ sent[c] # <<>>
    /\ UNCHANGED timers
    /\ \E write_ok \in BOOLEAN :
          IF write_ok
          THEN /\ sent' = [sent EXCEPT ![c] = Tail(@)]
               /\ UNCHANGED <<sessions, users, waiting_users, groups, running,
                              cmd_queue, hstate, unregistered, cascades,
                              left_loop, joins>>
          ELSE ExitStep(c, "text_failed")

HeartbeatNext ==
    \/ \E c \in Conns :
          \/ chat_ws_connect(c)
          \/ live_text_msg(c)
          \/ inbound_frame(c)
          \/ conn_msg(c)
          \/ heartbeat_tick(c)
          \/ senders_dropped(c)
    \/ server_run
    \/ tick_clock

\* The timed handlers with the three branches of the select (inbound frame,
\* outbound notification, heartbeat tick); no scheduling is assumed.
HeartbeatSpec == Init /\ [][HeartbeatNext]_vars

\* ------------------------------ FrameSpec: the handlers, frame by frame
\* (time is not tracked: the other breaks of the loop come at any moment)
\* A JSON object is a record of the fields it has.  serde refuses an object
\* that lacks a field the struct declares without Option, ignores fields the
\* struct does not declare, and reads an absent Option field as None.
ProfileFields == {"user_id", "username", "preference", "gender", "room_type"}
SendMessageFields == {"message", "is_group_chat"}
TypingFields == {"is_group_chat"}

OptionalField(data, field) ==
    IF field \in DOMAIN data THEN Some(data[field]) ELSE None

\* DecodeProfile, except that an absent username is read as the empty string,
\* as a field marked #[serde(default)] would be (a faulty variant the checks
\* must tell from DecodeProfile).
DecodeProfileDefaultName(data) ==
    IF (ProfileFields \ {"username"}) \subseteq DOMAIN data
    THEN Some([user_id |-> data.user_id,
               username |-> IF "username" \in DOMAIN data THEN data.username ELSE <<>>,
               preference |-> data.preference, gender |-> data.gender,
               room_type |-> data.room_type,
               group_code |-> OptionalField(data, "group_code"),
               group_join_method |-> OptionalField(data, "group_join_method")])
    ELSE None

\* serde_json::from_value::<UserProfile>(data)
DecodeProfile(data) ==
    IF ProfileFields \subseteq DOMAIN data
    THEN Some([user_id |-> data.user_id, username |-> data.username,
               preference |-> data.preference, gender |-> data.gender,
               room_type |-> data.room_type,
               group_code |-> OptionalField(data, "group_code"),
               group_join_method |-> OptionalField(data, "group_join_method")])
    ELSE None

\* serde_json::from_value::<SendMessageData>(data)
DecodeSendMessage(data) ==
    IF SendMessageFields \subseteq DOMAIN data
    THEN Some([message |-> data.message, is_group_chat |-> data.is_group_chat,
               group_code |-> OptionalField(data, "group_code")])
    ELSE None

\* serde_json::from_value::<TypingData>(data)
DecodeTyping(data) ==
    IF TypingFields \subseteq DOMAIN data
    THEN Some([is_group_chat |-> data.is_group_chat,
               group_code |-> OptionalField(data, "group_code")])
    ELSE None

\* process_text_msg: the command a text frame makes the handler of c issue, if
\* any.  text is None when the text is not a ClientEvent {event, data}.
DecodeText(c, text) ==
    IF text = None THEN None
    ELSE LET client_event == Unwrap(text)
             data == client_event.data
         IN CASE client_event.event = "join_chat" ->
                   IF DecodeProfile(data) # None
                   THEN Some(JoinChatCmd(c, Unwrap(DecodeProfile(data))))
                   ELSE None
              [] client_event.event = "send_message" ->
                   IF DecodeSendMessage(data) # None
                   THEN LET d == Unwrap(DecodeSendMessage(data))
                        IN Some(SendMessageCmd(c, d.message, d.is_group_chat, d.group_code))
                   ELSE None
              [] client_event.event = "typing_start" ->
                   IF DecodeTyping(data) # None
                   THEN LET d == Unwrap(DecodeTyping(data))
                        IN Some(TypingStartCmd(c, d.is_group_chat, d.group_code))
                   ELSE None
              [] client_event.event = "typing_stop" ->
                   IF DecodeTyping(data) # None
                   THEN LET d == Unwrap(DecodeTyping(data))
                        IN Some(TypingStopCmd(c, d.is_group_chat, d.group_code))
                   ELSE None
              [] client_event.event = "disconnect_chat" ->
                   Some(DisconnectChatCmd(c))
              [] OTHER -> None

\* The data objects the clients of FrameSpec send: complete 1:1 profiles, the
\* same without username, a message, a typing notice, an empty object.
ProfileData(p) ==
    [user_id |-> p.user_id, username |-> p.username, preference |-> p.preference,
     gender |-> p.gender, room_type |-> p.room_type]
ProfileDataWithoutName(p) ==
    [user_id |-> p.user_id, preference |-> p.preference,
     gender |-> p.gender, room_type |-> p.room_type]
FrameData ==
    {ProfileData(p) : p \in HProfiles}
    \cup {ProfileDataWithoutName(p) : p \in HProfiles}
    \cup {[message |-> m, is_group_chat |-> FALSE] : m \in Messages}
    \cup {[is_group_chat |-> FALSE], [other |-> TRUE]}

EventNames ==
    {"join_chat", "send_message", "typing_start", "typing_stop", "disconnect_chat",
     "unknown_event"}

\* actix_ws::Message as chat_ws matches it.
Frames ==
    {[kind |-> k, text |-> None] :
        k \in {"ping", "pong", "binary", "close", "continuation", "nop"}}
    \cup {[kind |-> "text", text |-> None]}
    \cup {[kind |-> "text", text |-> Some([event |-> e, data |-> d])] :
            e \in EventNames, d \in FrameData}

\* The branch of chat_ws for an inbound frame: the frame counts as activity;
\* a ping is answered with a pong, and the loop breaks when that write fails
\* (write_ok is its outcome); a text goes to process_text_msg; a close breaks
\* the loop; every other frame is logged at most.
ws_msg(c, frame, write_ok) ==
    /\ hstate[c] = "alive"
    /\ LET cmd == IF frame.kind = "text" THEN DecodeText(c, frame.text) ELSE None
       IN IF cmd # None
          THEN TextStep(c, Unwrap(cmd))
          ELSE /\ last_heartbeat' = [last_heartbeat EXCEPT ![c] = now]
               /\ UNCHANGED <<now, next_tick, pings>>
               /\ IF frame.kind = "close"
                  THEN ExitStep(c, "close_frame")
                  ELSE IF frame.kind = "ping" /\ ~write_ok
                  THEN ExitStep(c, "pong_failed")
                  ELSE /\ ServerUnchanged
                       /\ UNCHANGED <<cmd_queue, hstate, unregistered, cascades,
                                      left_loop, joins>>

chat_ws_frame(c) ==
    \E frame \in Frames :
        \E write_ok \in IF frame.kind = "ping" THEN BOOLEAN ELSE {TRUE} :
            ws_msg(c, frame, write_ok)

FrameNext ==
    \/ \E c \in Conns :
          \/ chat_ws_connect(c)
          \/ chat_ws_frame(c)
          \/ chat_ws_exit(c)
    \/ server_run

FrameSpec == Init /\ [][FrameNext]_vars

\* ------------------------------------------------------------------ claims
\* Number of notifications named event in the list evs.
Count(evs, event) == Cardinality({i \in 1..Len(evs) : evs[i].event = event})

HasSession(c) == c \in DOMAIN users
PartnerOf(c) == users[c].partner_id
InWaitingPool(c) == \E p \in DOMAIN waiting_users : c \in Range(waiting_users[p])
GroupsListing(c) == {g \in DOMAIN groups : c \in Range(groups[g].members)}
Paired(c) ==
    \/ HasSession(c) /\ PartnerOf(c) # None
    \/ \E d \in DOMAIN users : PartnerOf(d) = Some(c)

\* C1: partner symmetry.  For any two connections A and B that both have a
\* UserSession, A.partner = B implies B.partner = A, in every reachable state.
C1_PartnerSymmetry ==
    \A A \in DOMAIN users, B \in DOMAIN users :
        PartnerOf(A) = Some(B) => PartnerOf(B) = Some(A)

\* C2: exclusive placement.  Every connection id is in at most one of: a waiting
\* pool, an active 1:1 pairing, the member list of one group; in particular it
\* is listed by at most one group.
C2_ExclusivePlacement ==
    \A c \in Conns :
        /\ Cardinality(GroupsListing(c)) <= 1
        /\ ~(InWaitingPool(c) /\ Paired(c))
        /\ ~(InWaitingPool(c) /\ GroupsListing(c) # {})
        /\ ~(Paired(c) /\ GroupsListing(c) # {})

\* C3: in every live group the member-id list and the display-name list have the
\* same length, and the i-th display name is the display name of the i-th member.
C3_GroupListsParallel ==
    \A g \in DOMAIN groups :
        /\ Len(groups[g].members) = Len(groups[g].usernames)
        /\ \A i \in 1..Len(groups[g].members) :
              /\ i <= Len(groups[g].usernames)
              /\ HasSession(groups[g].members[i]) =>
                    groups[g].usernames[i] = users[groups[g].members[i]].username

\* C4: when A has partner B and A's disconnect cascade runs (the step removes
\* A's session), afterwards B.partner is unset and exactly one
\* partner_disconnected was queued to B, whatever A's room_type.
C4_PartnerReleasedOnDisconnect ==
    [][\A A \in Conns, B \in Conns :
          (/\ HasSession(A)
           /\ PartnerOf(A) = Some(B)
           /\ A \notin DOMAIN users')
          => /\ B \in DOMAIN users' => users'[B].partner_id = None
             /\ Count(sent'[B], "partner_disconnected") = 1]_vars

\* A.gender satisfies B.preference and B.gender satisfies A.preference, each
\* preference being "male" or "female".
MutuallyCompatible(genderA, preferenceA, genderB, preferenceB) ==
    /\ preferenceA \in {"male", "female"}
    /\ preferenceB \in {"male", "female"}
    /\ genderA = preferenceB
    /\ genderB = preferenceA

\* A is the only connection in the waiting pools: it joined 1:1 and is awaiting a match.
OnlyWaiter(A) ==
    /\ HasSession(A)
    /\ users[A].room_type = "1:1"
    /\ PartnerOf(A) = None
    /\ waiting_users[users[A].preference] = <<A>>
    /\ \A p \in DOMAIN waiting_users : p # users[A].preference => waiting_users[p] = <<>>

\* C5: A joined 1:1 and nobody else is waiting; B then joins 1:1 with a profile
\* mutually compatible with A's and the coordinator completes the join.  After
\* B's join both have received chat_started, they are each other's partner and
\* neither is in a waiting pool.
C5_CompatibleJoinsPair ==
    [][\A A \in Conns : \A B \in Conns \ {A}, profile \in Profiles :
          (/\ OnlyWaiter(A)
           /\ ~HasSession(B)
           /\ profile.room_type = "1:1"
           /\ MutuallyCompatible(users[A].gender, users[A].preference,
                                 profile.gender, profile.preference)
           /\ JoinChatStep(B, profile)
           /\ running')
          => /\ users'[A].partner_id = Some(B)
             /\ users'[B].partner_id = Some(A)
             /\ Count(sent'[A], "chat_started") >= 1
             /\ Count(sent'[B], "chat_started") >= 1
             /\ \A p \in DOMAIN waiting_users' :
                   A \notin Range(waiting_users'[p]) /\ B \notin Range(waiting_users'[p])]_vars

\* B is A's current partner: A.partner = B and B.partner = A.
CurrentPartner(A, B) ==
    /\ HasSession(A) /\ HasSession(B)
    /\ PartnerOf(A) = Some(B)
    /\ PartnerOf(B) = Some(A)

\* C6: a 1:1 sendMessage by A that the coordinator processes queues exactly one
\* receive_message to A's current partner and none to any connection that is
\* not A's current partner.
C6_DirectMessageToCurrentPartnerOnly ==
    [][\A A \in Conns, D \in Conns, message \in Messages :
          (running /\ SendMessageStep(A, message, FALSE, None))
          => Count(sent'[D], "receive_message") = IF CurrentPartner(A, D) THEN 1 ELSE 0]_vars

\* The group a group command of A addresses: group_code, else A's own group id.
AddressedGroup(A, group_code) ==
    IF group_code # None THEN group_code ELSE users[A].group_id

\* C7: a group sendMessage by a member A of group G that the coordinator
\* processes queues receive_message exactly once to every other connection that
\* is a member of G, and to nobody else.
C7_GroupMessageOncePerMember ==
    [][\A A \in Conns, D \in Conns, message \in Messages, group_code \in OptionalCodes :
          (/\ running
           /\ HasSession(A)
           /\ AddressedGroup(A, group_code) # None
           /\ Unwrap(AddressedGroup(A, group_code)) \in GroupsListing(A)
           /\ SendMessageStep(A, message, TRUE, group_code))
          => Count(sent'[D], "receive_message") =
                IF D # A /\ Unwrap(AddressedGroup(A, group_code)) \in GroupsListing(D)
                THEN 1 ELSE 0]_vars

\* C8: every connection id in a waiting pool has a UserSession, has no partner,
\* and is nobody's partner.
C8_WaitingMeansUnmatched ==
    \A p \in DOMAIN waiting_users :
        \A c \in Range(waiting_users[p]) :
            /\ HasSession(c)
            /\ PartnerOf(c) = None
            /\ \A d \in DOMAIN users : PartnerOf(d) # Some(c)

\* C9: once the handler of c has left its loop, exactly one unregister command
\* was issued for c, the disconnect cascade has run for it at most once, and it
\* has run once as soon as no unregister command of c is pending.
C9_CascadeExactlyOncePerExit ==
    \A c \in Conns :
        left_loop[c] =>
            /\ unregistered[c] = 1
            /\ cascades[c] <= 1
            /\ (\A i \in 1..Len(cmd_queue) : cmd_queue[i] # DisconnectCmd(c))
                  => cascades[c] = 1

\* C10: no join whose profile decodes is fatal to the coordinator: the task of
\* ChatServer::run stays alive and goes on processing commands.
C10_JoinNeverFatal == running

\* C11: a handler that waits in its select at a heartbeat tick with more than
\* CLIENT_TIMEOUT seconds of silence leaves the loop and the disconnect cascade
\* then runs for its connection (unless an inbound frame ends the silence first).
C11_SilenceTimesOut ==
    \A c \in Conns :
        (TickDue(c) /\ Silence(c) > CLIENT_TIMEOUT)
            ~> (cascades[c] >= 1 \/ Silence(c) <= CLIENT_TIMEOUT)

\* C12: no live group has an empty member list, and a command whose disconnect
\* cascade removes the only member c of c's group g removes g from the registry.
C12_EmptyGroupDeleted ==
    /\ [](\A g \in DOMAIN groups : groups[g].members # <<>>)
    /\ [][\A c \in DOMAIN users, g \in DOMAIN groups :
             (/\ users[c].room_type = "group"
              /\ users[c].group_id = Some(g)
              /\ Range(groups[g].members) = {c}
              /\ c \notin DOMAIN users')
             => g \notin DOMAIN groups']_vars

\* The cascade has just removed a member from a group that lives on with the
\* member that is left.
C12_Witness ==
    \E g \in DOMAIN groups : \E d \in Conns :
        /\ groups[g].members = <<d>>
        /\ Count(sent[d], "user_left_group") = 1

\* C13: whenever the matchmaking of a 1:1 join of A pairs A with candidate B,
\* afterwards A.partner = B and B.partner = A, neither is in a waiting pool and
\* exactly one chat_started was queued to each of A and B.
C13_PairingPostcondition ==
    [][\A A \in Conns, B \in Conns, profile \in Profiles :
          (/\ profile.room_type = "1:1"
           /\ JoinChatStep(A, profile)
           /\ running'
           /\ users'[A].partner_id = Some(B))
          => /\ B \in DOMAIN users'
             /\ users'[B].partner_id = Some(A)
             /\ \A p \in DOMAIN waiting_users' :
                   A \notin Range(waiting_users'[p]) /\ B \notin Range(waiting_users'[p])
             /\ Count(sent'[A], "chat_started") = 1
             /\ Count(sent'[B], "chat_started") = 1]_vars

\* The step is a join_chat of A with the given profile that the coordinator
\* completes.  (The session the join leaves for A is compared first: it tells
\* most steps apart without running the command again.)
JoinCompleted(A, profile) ==
    /\ running'
    /\ joins' = joins + 1
    /\ ~JoinPanics(profile)
    /\ A \in DOMAIN users'
    /\ users'[A].gender = profile.gender
    /\ users'[A].preference = profile.preference
    /\ users'[A].room_type = profile.room_type
    /\ users'[A].username = DisplayName(profile)
    /\ JoinChatStep(A, profile)

\* C14: whenever the matchmaking of a 1:1 join of A pairs A with B, B was in
\* the waiting pool keyed by A's preference, that preference is "male" or
\* "female" and B's recorded gender equals it; and a 1:1 join with any other
\* preference leaves A without partner, enqueued in the pool of its preference,
\* with exactly one waiting_for_match queued to it.
C14_MatchmakingEligibility ==
    [][\A A \in Conns, profile \in Range(ProfileList) :
          (profile.room_type = "1:1" /\ JoinCompleted(A, profile))
          => /\ \A B \in Conns :
                   users'[A].partner_id = Some(B)
                   => /\ B \in Range(waiting_users[profile.preference])
                      /\ profile.preference \in {"male", "female"}
                      /\ B \in DOMAIN users'
                      /\ users'[B].gender = profile.preference
             /\ profile.preference \notin {"male", "female"}
                   => /\ users'[A].partner_id = None
                      /\ A \in Range(waiting_users'[profile.preference])
                      /\ Count(sent'[A], "waiting_for_match") = 1]_vars

\* Matchmaking has just paired two distinct connections A and B, B of the
\* gender A asked for, and told each of them once.
C14_Witness ==
    \E A \in DOMAIN users : \E B \in DOMAIN users \ {A} :
        /\ users[A].partner_id = Some(B)
        /\ users[B].partner_id = Some(A)
        /\ users[B].gender = users[A].preference
        /\ Count(sent[A], "chat_started") = 1
        /\ Count(sent[B], "chat_started") = 1


\* The gender find_match reads for candidate B when A joins with the profile:
\* A's own record has been replaced by then.
GenderAtJoin(A, profile, B) ==
    IF B = A THEN profile.gender ELSE users[B].gender

\* No connection waiting in the pool keyed by the profile's preference satisfies
\* that preference.
NoEligibleCandidate(A, profile) ==
    \A B \in Range(waiting_users[profile.preference]) :
        ~(/\ profile.preference \in {"male", "female"}
          /\ GenderAtJoin(A, profile, B) = profile.preference)

\* C15: a completed 1:1 join of A for which no eligible candidate exists queues
\* exactly one waiting_for_match to A, appends A to the waiting pool keyed by
\* A's preference, leaves A's partner unset and changes the session of no other
\* connection.
C15_NoCandidateEnqueues ==
    [][\A A \in Conns, profile \in Range(ProfileList) :
          (/\ profile.room_type = "1:1"
           /\ NoEligibleCandidate(A, profile)
           /\ JoinCompleted(A, profile))
          => /\ Count(sent'[A], "waiting_for_match") = 1
             /\ waiting_users'[profile.preference]
                    = Append(waiting_users[profile.preference], A)
             /\ users'[A].partner_id = None
             /\ \A B \in Conns \ {A} :
                   /\ B \in DOMAIN users' <=> B \in DOMAIN users
                   /\ B \in DOMAIN users => users'[B] = users[B]]_vars

\* A has just been enqueued and told to wait although B was waiting in the pool
\* A asked from: B's gender is not the one A prefers.
C15_Witness ==
    \E A \in DOMAIN users : \E B \in DOMAIN users \ {A} :
        /\ users[A].room_type = "1:1"
        /\ users[A].partner_id = None
        /\ Count(sent[A], "waiting_for_match") = 1
        /\ Len(waiting_users[users[A].preference]) >= 2
        /\ waiting_users[users[A].preference][Len(waiting_users[users[A].preference])] = A
        /\ B \in Range(waiting_users[users[A].preference])
        /\ users[B].gender # users[A].preference

\* C16: a completed join of A with room_type "group" and join method "create"
\* leaves a group whose member list is exactly <<A>> and whose name list is
\* exactly A's display name, sets A's group id to its code, and queues to A
\* chat_started carrying that code and then group_members_update carrying
\* exactly A's display name, and nothing else.
C16_GroupCreate ==
    [][\A A \in Conns, profile \in Range(ProfileList) :
          (/\ profile.room_type = "group"
           /\ profile.group_join_method = Some("create")
           /\ JoinCompleted(A, profile))
          => \E code \in DOMAIN groups' :
                /\ groups'[code].code = code
                /\ groups'[code].members = <<A>>
                /\ groups'[code].usernames = <<DisplayName(profile)>>
                /\ users'[A].group_id = Some(code)
                /\ sent'[A] =
                     << ServerEvent("chat_started", [groupCode |-> Some(code)]),
                        ServerEvent("group_members_update",
                                    [members |-> <<DisplayName(profile)>>]) >>]_vars

\* A has just created a group: it is the only member and holds chat_started
\* followed by the snapshot of one name.
C16_Witness ==
    \E A \in DOMAIN users : \E code \in DOMAIN groups :
        /\ users[A].room_type = "group"
        /\ users[A].group_id = Some(code)
        /\ groups[code].members = <<A>>
        /\ Len(sent[A]) = 2
        /\ sent[A][1].event = "chat_started"
        /\ sent[A][1].data.groupCode = Some(code)
        /\ sent[A][2].event = "group_members_update"
        /\ sent[A][2].data.members = <<users[A].username>>

\* The events of the given name queued to connection m by the last command.
EventsOf(m, event) == SelectSeq(sent[m], LAMBDA ev : ev.event = event)

\* C17: a completed join of A by the code X of an existing group appends A to
\* X's member list and A's display name to X's name list; every member of X,
\* A included, is queued group_members_update carrying the updated name list;
\* every member other than A is queued exactly one user_joined_group, carrying
\* A's display name; A is queued exactly one chat_started, carrying X, and no
\* user_joined_group.
C17_JoinByKnownCode ==
    [][\A A \in Conns, profile \in Range(ProfileList) :
          (/\ JoinsByCode(profile)
           /\ Unwrap(profile.group_code) \in DOMAIN groups
           /\ JoinCompleted(A, profile))
          => LET X == Unwrap(profile.group_code)
                 name == DisplayName(profile)
             IN /\ X \in DOMAIN groups'
                /\ groups'[X].members = Append(groups[X].members, A)
                /\ groups'[X].usernames = Append(groups[X].usernames, name)
                /\ \A m \in Range(groups'[X].members) :
                      /\ EventsOf(m, "group_members_update")' # <<>>
                      /\ \A i \in DOMAIN EventsOf(m, "group_members_update")' :
                            EventsOf(m, "group_members_update")'[i].data.members
                                = groups'[X].usernames
                /\ \A m \in Range(groups'[X].members) \ {A} :
                      EventsOf(m, "user_joined_group")'
                          = << ServerEvent("user_joined_group", [name |-> name]) >>
                /\ EventsOf(A, "chat_started")'
                       = << ServerEvent("chat_started", [groupCode |-> Some(X)]) >>
                /\ EventsOf(A, "user_joined_group")' = <<>>]_vars

\* C18: a completed join of A by a code under which no group is stored queues
\* to A exactly one group_not_found, creates no group, changes no group's
\* member or name list, leaves A's group id unset, and queues nothing to any
\* other connection.
C18_JoinByUnknownCode ==
    [][\A A \in Conns, profile \in Range(ProfileList) :
          (/\ JoinsByCode(profile)
           /\ Unwrap(profile.group_code) \notin DOMAIN groups
           /\ JoinCompleted(A, profile))
          => /\ Count(sent'[A], "group_not_found") = 1
             /\ DOMAIN groups' = DOMAIN groups
             /\ \A g \in DOMAIN groups :
                   /\ groups'[g].members = groups[g].members
                   /\ groups'[g].usernames = groups[g].usernames
             /\ users'[A].group_id = None
             /\ \A B \in Conns \ {A} : sent'[B] = <<>>]_vars

\* A has just been told group_not_found while another group exists: A is in no
\* group and the existing group does not list it.
C18_Witness ==
    \E A \in DOMAIN users :
        /\ users[A].room_type = "group"
        /\ users[A].group_id = None
        /\ sent[A] = << ServerEvent("group_not_found", EmptyData) >>
        /\ DOMAIN groups # {}
        /\ \A g \in DOMAIN groups : A \notin Range(groups[g].members)

\* The coordinator's state after it has run Command::Disconnect for c from
\* state S; sent holds what that one command queued.
Unregister(S, c) ==
    run([S EXCEPT !.sent = NoSent], DisconnectCmd(c), 0, CHOOSE d \in DrawChoices : TRUE)

\* What the coordinator stores, the queued notifications aside.
Stored(S) == <<S.sessions, S.users, S.waiting_users, S.groups, S.running>>

\* C19: in every reachable state and for every connection id c, running
\* unregister(c) again after unregister(c) changes nothing the coordinator
\* stores and queues no notification, so that the state after two runs is the
\* state after one; and unregister(c) for a c without session changes nothing
\* and queues no notification.
C19_UnregisterIdempotent ==
    \A c \in Conns :
        LET once == Unregister(Server, c)
            twice == Unregister(once, c)
        IN /\ Stored(twice) = Stored(once)
           /\ twice.sent = NoSent
           /\ c \notin DOMAIN users
                 => /\ Stored(once) = Stored(Server)
                    /\ once.sent = NoSent

\* The handler of c has left and unregister(c) has run: c's session is gone and
\* its partner has been told once; another unregister(c) would start here.
C19_Witness ==
    \E c \in Conns : \E d \in DOMAIN users :
        /\ hstate[c] = "closed"
        /\ unregistered[c] = 1
        /\ c \notin DOMAIN users
        /\ d # c
        /\ Count(sent[d], "partner_disconnected") = 1

\* C20: a disconnect_chat of c that the coordinator runs leaves c without
\* UserSession, listed in no group, partner of no connection and in no waiting
\* pool, keeps c's outbound route bound and c's handler alive; and a join that
\* c completes afterwards gives c a session again and queues its notifications
\* on that route.
C20_LeaveChatKeepsRegistration ==
    [][\A c \in Conns :
          /\ (running /\ disconnect_chat(c))
                => /\ c \notin DOMAIN users'
                   /\ \A g \in DOMAIN groups' : c \notin Range(groups'[g].members)
                   /\ \A d \in DOMAIN users' : users'[d].partner_id # Some(c)
                   /\ \A p \in DOMAIN waiting_users' : c \notin Range(waiting_users'[p])
                   /\ c \in sessions'
                   /\ sessions' = sessions
                   /\ hstate'[c] = "alive"
          /\ \A profile \in Range(ProfileList) :
                (c \notin DOMAIN users /\ JoinCompleted(c, profile))
                => /\ c \in DOMAIN users'
                   /\ c \in sessions'
                   /\ sent'[c] # <<>>]_vars

\* The commands of connection c waiting in the command channel, oldest first.
QueuedBy(c) == SelectSeq(cmd_queue, LAMBDA cmd : cmd.conn = c)

\* The step applies the oldest queued command: the coordinator's state becomes
\* what run makes of it, and the command leaves the head of the queue (a command
\* that kills the task empties the queue).
AppliesOldest ==
    /\ cmd_queue # <<>>
    /\ \E random \in RandomsFor(Head(cmd_queue)), draws \in DrawsFor(Head(cmd_queue)) :
          LET S2 == run([Server EXCEPT !.sent = NoSent], Head(cmd_queue), random, draws)
          IN /\ Stored(Server)' = Stored(S2)
             /\ sent' = S2.sent
             /\ cmd_queue' = IF S2.running THEN Tail(cmd_queue) ELSE <<>>

\* The step queues one command behind those already queued and applies none.
IssuesOne ==
    /\ Len(cmd_queue') = Len(cmd_queue) + 1
    /\ SubSeq(cmd_queue', 1, Len(cmd_queue)) = cmd_queue
    /\ Stored(Server)' = Stored(Server)

\* C21: in HandlerSpec, for every interleaving of the handlers, the command
\* channel is first-in first-out: a step either queues one command behind the
\* others or applies the oldest one, so the commands of one connection are
\* applied in the order its handler issued them; the handler issues a command
\* only when none of its own is still queued, and the unregister it issues at
\* exit enters the queue when every earlier command of the connection has been
\* applied and is the last command the connection ever issues.
C21_PerConnectionOrder ==
    /\ [][(cmd_queue' # cmd_queue \/ Stored(Server)' # Stored(Server))
             => (IssuesOne \/ AppliesOldest)]_vars
    /\ [][\A c \in Conns :
             /\ Len(QueuedBy(c))' > Len(QueuedBy(c)) => QueuedBy(c) = <<>>
             /\ (hstate[c] \in {"closed", "panicked"} /\ QueuedBy(c) = <<>>)
                   => QueuedBy(c)' = <<>>
             /\ (QueuedBy(c) # <<>> /\ QueuedBy(c)[1].type = "Disconnect")
                   => Len(QueuedBy(c))' <= 1]_vars

\* The commands of two connections are interleaved in the channel: the
\* unregister of c, issued after a join of c was applied, waits behind a command
\* of another connection.
C21_Witness ==
    \E c \in Conns : \E d \in Conns \ {c} :
        /\ Len(cmd_queue) = 2
        /\ cmd_queue[1].conn = d
        /\ cmd_queue[2] = DisconnectCmd(c)
        /\ joins >= 1
        /\ c \in DOMAIN users

\* The step changes what the coordinator stores or what it has queued to the
\* outbound routes.
CoordinatorActs == Stored(Server)' # Stored(Server) \/ sent' # sent

\* The step is the whole of command cmd and nothing else: everything the
\* coordinator stores is what run makes of the state the previous command left,
\* and the notifications queued are exactly those of cmd, each route's in one
\* block.
WholeCommand(cmd) ==
    \E random \in RandomsFor(cmd), draws \in DrawsFor(cmd) :
        LET S2 == run([Server EXCEPT !.sent = NoSent], cmd, random, draws)
        IN /\ sessions' = S2.sessions
           /\ users' = S2.users
           /\ waiting_users' = S2.waiting_users
           /\ groups' = S2.groups
           /\ running' = S2.running
           /\ sent' = S2.sent

\* C22: in HandlerSpec, with the handlers issuing commands and leaving at any
\* moment, every step that changes the coordinator's state or queues a
\* notification is the whole of the oldest queued command, state change and all
\* of its notifications, taken off the queue and acknowledged in that same
\* step; no step of a handler changes the coordinator's state, and a handler
\* that awaits an acknowledgement has its command still queued untouched, so no
\* command starts from a state in which another is half applied.
C22_CommandAtomicity ==
    /\ [][CoordinatorActs
             => /\ running
                /\ cmd_queue # <<>>
                /\ WholeCommand(Head(cmd_queue))
                /\ cmd_queue' = IF running' THEN Tail(cmd_queue) ELSE <<>>
                /\ hstate'[Head(cmd_queue).conn] \notin {"connecting", "awaiting"}]_vars
    /\ [](\A c \in Conns :
             hstate[c] \in {"connecting", "awaiting"}
                => /\ Len(QueuedBy(c)) = 1
                   /\ QueuedBy(c)[1].type \notin {"Disconnect"})

\* A command has just queued notifications to both connections (a pairing)
\* while the next command, issued meanwhile by a handler, waits in the channel.
C22_Witness ==
    /\ \A c \in Conns : Count(sent[c], "chat_started") = 1
    /\ cmd_queue # <<>>
    /\ running

\* The first n characters of a string (all of it when it is shorter).
FirstChars(str, n) == SubSeq(str, 1, IF Len(str) < n THEN Len(str) ELSE n)

\* C23: a join of A that the coordinator receives with a profile whose
\* username is empty leaves the coordinator running and A with a UserSession
\* whose display name is "User-" followed by the first five characters of the
\* user id, and goes on to matchmaking or group logic, which queues at least
\* one notification to A.
C23_DisplayNameFallback ==
    [][\A A \in Conns, profile \in Range(ProfileList) :
          (/\ profile.username = <<>>
           /\ running
           /\ joins' = joins + 1
           /\ JoinChatStep(A, profile))
          => /\ running'
             /\ A \in DOMAIN users'
             /\ users'[A].username
                    = <<"U", "s", "e", "r", "-">> \o FirstChars(profile.user_id, UserIdPrefixLen)
             /\ users'[A].room_type = profile.room_type
             /\ sent'[A] # <<>>]_vars

\* The frames the claim lists: a ping, a pong, a binary frame, a text that is
\* not an {event, data} envelope, an envelope with an event name that is not
\* recognised, and a join_chat, send_message or typing envelope whose data lacks
\* a field the event's struct requires.
ListedAsDropped(frame) ==
    \/ frame.kind \in {"ping", "pong", "binary"}
    \/ /\ frame.kind = "text"
       /\ \/ frame.text = None
          \/ LET event == Unwrap(frame.text).event
                 fields == DOMAIN Unwrap(frame.text).data
             IN \/ event \notin {"join_chat", "send_message", "typing_start",
                                 "typing_stop", "disconnect_chat"}
                \/ event = "join_chat" /\ ~(ProfileFields \subseteq fields)
                \/ event = "send_message" /\ ~(SendMessageFields \subseteq fields)
                \/ event \in {"typing_start", "typing_stop"}
                      /\ ~(TypingFields \subseteq fields)

\* The step queues a command, changes what the coordinator stores or takes the
\* handler of c out of state alive.
Disturbs(c) ==
    \/ cmd_queue' # cmd_queue
    \/ Stored(Server)' # Stored(Server)
    \/ hstate'[c] # "alive"

\* C24 as stated: no handling of a listed frame from c queues a command,
\* changes the coordinator's state (no session is created) or takes the handler
\* of c out of state alive, whatever becomes of the pong that answers a ping.
C24_ListedFramesDropped ==
    [][\A c \in Conns :
          (hstate[c] = "alive" /\ Disturbs(c))
          => ~\E frame \in Frames, write_ok \in BOOLEAN :
                 ListedAsDropped(frame) /\ ws_msg(c, frame, write_ok)]_vars

\* C24 amended: the same, for a ping only when its pong is written.
C24_ListedFramesDroppedPongWritten ==
    [][\A c \in Conns :
          (hstate[c] = "alive" /\ Disturbs(c))
          => ~\E frame \in Frames, write_ok \in BOOLEAN :
                 /\ ListedAsDropped(frame)
                 /\ frame.kind = "ping" => write_ok
                 /\ ws_msg(c, frame, write_ok)]_vars

\* The handler of c is alive, paired with another connection, with nothing
\* queued: the listed frames it reads here leave this state as it is.
C24_Witness ==
    \E c \in DOMAIN users : \E d \in DOMAIN users \ {c} :
        /\ hstate[c] = "alive"
        /\ users[c].partner_id = Some(d)
        /\ cmd_queue = <<>>
        /\ running
        /\ \A frame \in Frames :
              ListedAsDropped(frame) => ENABLED ws_msg(c, frame, TRUE)

\* The command of c has no target: c has no UserSession, or the command is
\* addressed to the partner and c has none, or it is addressed to a group, c
\* has no group and the command names no existing group.
UnknownTarget(c, is_group_chat, group_code) ==
    \/ c \notin DOMAIN users
    \/ ~is_group_chat /\ users[c].partner_id = None
    \/ /\ is_group_chat
       /\ users[c].group_id = None
       /\ group_code = None \/ Unwrap(group_code) \notin DOMAIN groups

\* The step is a send_message, typing_start or typing_stop of c with the given
\* addressing that the coordinator runs.
RelayStep(c, is_group_chat, group_code) ==
    /\ running
    /\ hstate[c] = "alive"
    /\ joins' = joins
    /\ \/ \E message \in Messages :
             Call(c, SendMessageCmd(c, message, is_group_chat, group_code), "alive")
       \/ Call(c, TypingStartCmd(c, is_group_chat, group_code), "alive")
       \/ Call(c, TypingStopCmd(c, is_group_chat, group_code), "alive")

\* C25: a send_message, typing_start or typing_stop of a connection whose
\* command has no target changes nothing the coordinator stores and queues no
\* notification to any connection, the issuer included.
C25_UnknownTargetNoOp ==
    [][\A c \in Conns, a \in Addressings :
          (UnknownTarget(c, a[1], a[2]) /\ RelayStep(c, a[1], a[2]))
          => /\ Stored(Server)' = Stored(Server)
             /\ sent' = NoSent]_vars

\* Connection c waits unmatched in a pool while other sessions and a group
\* exist: its direct messages and its group messages without code have no
\* target, and the last command queued nothing.
C25_Witness ==
    \E c \in DOMAIN users :
        /\ hstate[c] = "alive"
        /\ running
        /\ InWaitingPool(c)
        /\ users[c].partner_id = None
        /\ UnknownTarget(c, FALSE, None)
        /\ UnknownTarget(c, TRUE, None)
        /\ DOMAIN users # {c}
        /\ sent = NoSent

\* C26: whenever a command is queued the coordinator can take it (it waits for
\* nothing but its command channel); a command leaves the queue only as the
\* oldest one, processed to completion by a coordinator that stays alive, with
\* its issuer acknowledged when it carries a reply channel; and a handler that
\* awaits an acknowledgement leaves the wait only by receiving it.
C26_CoordinatorNeverBlocks ==
    /\ [](cmd_queue # <<>> => ENABLED server_run)
    /\ [][Len(cmd_queue') < Len(cmd_queue)
             => /\ cmd_queue' = Tail(cmd_queue)
                /\ running'
                /\ WholeCommand(Head(cmd_queue))
                /\ Head(cmd_queue).type # "Disconnect"
                      => hstate'[Head(cmd_queue).conn] = "alive"]_vars
    /\ [][\A c \in Conns :
             hstate[c] \in {"connecting", "awaiting"}
                => hstate'[c] \in {hstate[c], "alive"}]_vars

\* The display names of a group that stand at the positions of members other
\* than c.
NamesOfOthers(group, c) ==
    LET n == Len(group.usernames)
        F[i \in 0..n] ==
            IF i = 0 THEN <<>>
            ELSE IF i <= Len(group.members) /\ group.members[i] = c
                 THEN F[i - 1]
                 ELSE Append(F[i - 1], group.usernames[i])
    IN F[n]

\* C27: when the handler of c leaves and the coordinator runs the cascade for
\* c, the session of every other connection is unchanged but for the partner
\* reference of c's partner, every group keeps the member entries and the
\* display-name entries of the other connections (a group that held c alone may
\* go), every waiting pool keeps the entries other than c, and the handler state
\* of every other connection is unchanged.
C27_FailureIsolation ==
    [][\A c \in Conns :
          (running /\ disconnect(c))
          => /\ \A d \in Conns \ {c} :
                   /\ hstate'[d] = hstate[d]
                   /\ d \in DOMAIN users' <=> d \in DOMAIN users
                   /\ d \in DOMAIN users
                         => \/ users'[d] = users[d]
                            \/ /\ c \in DOMAIN users
                               /\ users[c].partner_id = Some(d)
                               /\ users'[d] = [users[d] EXCEPT !.partner_id = None]
             /\ \A g \in DOMAIN groups :
                   IF g \in DOMAIN groups'
                   THEN /\ RetainNot(groups'[g].members, c)
                               = RetainNot(groups[g].members, c)
                        /\ NamesOfOthers(groups'[g], c) = NamesOfOthers(groups[g], c)
                   ELSE Range(groups[g].members) \subseteq {c}
             /\ DOMAIN groups' \subseteq DOMAIN groups
             /\ \A p \in DOMAIN waiting_users :
                   RetainNot(waiting_users'[p], c) = RetainNot(waiting_users[p], c)]_vars

\* The heartbeat branch of the handler of c is served by the step.
TickServed(c) == hstate[c] = "alive" /\ next_tick'[c] # next_tick[c]

\* The outbound branch of the handler of c writes its oldest notification.
OutboundWritten(c) ==
    hstate[c] = "alive" /\ sent[c] # <<>> /\ sent'[c] = Tail(sent[c])

DrawsGiving(g) == {d \in DrawChoices : generate_group_code(d) = g}

\* C29: all codes the generator has handed out (the keys of the registry) have
\* one and the same number of characters, that of CodeDraws draws of one
\* character each, and each of them is the code of one draw sequence only.
C29_FixedLengthCodes ==
    /\ \A g1, g2 \in DOMAIN groups : Len(g1) = Len(g2)
    /\ \A g \in DOMAIN groups : Len(g) = CodeDraws
    /\ \A g \in DOMAIN groups : Cardinality(DrawsGiving(g)) = 1

\* C30: a completed join of A by "create" leaves every live group A is not a
\* member of in the registry with its member and name lists as they were, also
\* when the generated code is the key of that group; and every other
\* connection that was listed in the group its group id names is still listed
\* in the group its group id names.
C30_CreateKeepsLiveGroups ==
    [][\A A \in Conns, profile \in Range(ProfileList) :
          (JoinsByCreate(profile) /\ JoinCompleted(A, profile))
          => /\ \A g \in DOMAIN groups :
                   A \notin Range(groups[g].members)
                   => /\ g \in DOMAIN groups'
                      /\ groups'[g].members = groups[g].members
                      /\ groups'[g].usernames = groups[g].usernames
             /\ \A c \in DOMAIN users \ {A} : \A g \in DOMAIN groups :
                   (/\ users[c].group_id = Some(g)
                    /\ c \in Range(groups[g].members)
                    /\ c \in DOMAIN users'
                    /\ users'[c].group_id = Some(g))
                   => /\ g \in DOMAIN groups'
                      /\ c \in Range(groups'[g].members)]_vars

\* The notifications the three relay commands of c with the arguments a queue
\* to d in the current state.
Relayed(c, a, d) ==
    LET S == [Server EXCEPT !.sent = NoSent]
    IN [message |-> SendMessage(S, c, CHOOSE m \in Messages : TRUE, a[1], a[2]).sent[d],
        start |-> TypingStart(S, c, a[1], a[2]).sent[d],
        stop |-> TypingStop(S, c, a[1], a[2]).sent[d]]

\* C31: in every reachable state and for every connection c and arguments
\* (is_group_chat, group_code), typingStart and typingStop queue a notification
\* to exactly the connections to which sendMessage with the same arguments
\* queues receive_message, one notification to each of them, and leave the
\* stored state of the coordinator as it is.
C31_TypingAddressingEqualsMessage ==
    running =>
        \A c \in Conns : \A a \in Addressings :
            LET S == [Server EXCEPT !.sent = NoSent]
            IN /\ Stored(TypingStart(S, c, a[1], a[2])) = Stored(S)
               /\ Stored(TypingStop(S, c, a[1], a[2])) = Stored(S)
               /\ \A d \in Conns :
                     /\ Count(Relayed(c, a, d).start, "typing_started")
                           = Count(Relayed(c, a, d).message, "receive_message")
                     /\ Count(Relayed(c, a, d).stop, "typing_stopped")
                           = Count(Relayed(c, a, d).message, "receive_message")
                     /\ Len(Relayed(c, a, d).start) <= 1
                     /\ Len(Relayed(c, a, d).stop) <= 1

\* C32: in every reachable state no connection has itself as partner (the
\* matchmaking of a join of A never selects A, also when A is still in a
\* waiting pool from an earlier join).
C32_NoSelfPairing ==
    \A A \in DOMAIN users : PartnerOf(A) # Some(A)

\* C33: in every reachable state a connection id c is in the member list of a
\* group g exactly when c has a UserSession whose group id is g, and no member
\* list holds the same connection id twice.
C33_MembershipMatchesSessions ==
    \A g \in DOMAIN groups :
        /\ \A c \in Conns :
              c \in Range(groups[g].members)
                 <=> (HasSession(c) /\ users[c].group_id = Some(g))
        /\ Cardinality(Range(groups[g].members)) = Len(groups[g].members)

\* C34: a sendMessage, typingStart or typingStop of c with is_group_chat set
\* queues a notification to some connection only if c is itself a member of
\* the group the command addresses (the group of group_code, else c's own).
C34_GroupTrafficFromMembersOnly ==
    [][\A c \in Conns, group_code \in OptionalCodes :
          (RelayStep(c, TRUE, group_code) /\ sent' # NoSent)
          => /\ HasSession(c)
             /\ AddressedGroup(c, group_code) # None
             /\ Unwrap(AddressedGroup(c, group_code)) \in GroupsListing(c)]_vars

\* C35: in every reachable state, if B is A's partner then A's gender is the
\* preference of B and B's gender is the preference of A.
C35_PairingCompatibleBothWays ==
    \A A \in DOMAIN users, B \in DOMAIN users :
        PartnerOf(A) = Some(B)
        => /\ users[B].gender = users[A].preference
           /\ users[A].gender = users[B].preference

\* C36: in every reachable state the routes bound in the coordinator's table
\* are those of the connections whose handler has registered and not yet
\* unregistered: once the unregister of c has been processed, c has no route.
C36_RegistrationsReleased ==
    running =>
        \A c \in Conns :
            /\ c \in sessions <=> hstate[c] = "alive"
            /\ unregistered[c] >= 1 => c \notin sessions

\* Number of entries of the waiting pools, all taken together, that are c.
WaitingEntries(c) ==
    Cardinality({e \in (DOMAIN waiting_users) \X (1..MaxJoins) :
                    /\ e[2] <= Len(waiting_users[e[1]])
                    /\ waiting_users[e[1]][e[2]] = c})

\* C37: in every reachable state a connection id occurs at most once in the
\* waiting pools taken together, and only in the pool keyed by the preference
\* of its current UserSession, whose room type is not "group".
C37_WaitingAtMostOnce ==
    \A c \in Conns :
        /\ WaitingEntries(c) <= 1
        /\ \A p \in DOMAIN waiting_users :
              c \in Range(waiting_users[p])
              => /\ HasSession(c)
                 /\ users[c].preference = p
                 /\ users[c].room_type # "group"
====
